---- MODULE Spec2Model ----
(***************************************************************************)
(* Model of src/task_manage.py: the Task record and schedule_tasks, the    *)
(* dependency-aware Earliest-Deadline-First scheduler.                     *)
(*                                                                         *)
(* One behaviour is one call of schedule_tasks on one input list.  A task  *)
(* object is identified by its position in the input list; Optional[int]   *)
(* is a sequence of length 0 (None) or 1 (the integer).                    *)
(***************************************************************************)
EXTENDS Integers, Sequences, FiniteSets, TLC

VARIABLES tasks, pc, task_map, in_degree, ready_queue, current_time,
          scheduled_tasks, successors, result,
          ready_since,  \* history: the iteration count at which each task
                        \* object entered ready_queue (0: lines 37-40), -1: never
          previous      \* history: what an earlier call on this list returned
                        \* and left in the tasks, << >> when there was none

vars == <<tasks, pc, task_map, in_degree, ready_queue, current_time,
          scheduled_tasks, successors, result, ready_since, previous>>

(***************************************************************************)
(* Bounds of the input space.                                              *)
(***************************************************************************)
MaxTasks == 3
WideTasks == 4

Names == {"A", "B", "C"}
NameSeq == <<"A", "B", "C", "D", "E">>
Durations == {-1, 0, 2}
Deadlines == {1, 2, 3}

None == << >>
Some(v) == <<v>>

(***************************************************************************)
(* Task.__init__: the four constructor arguments are stored as given (no   *)
(* validation of any of them); start_time and finish_time start as None.   *)
(***************************************************************************)
Task(name, duration, deadline, dependencies) ==
    [name |-> name, duration |-> duration, deadline |-> deadline,
     dependencies |-> dependencies, start_time |-> None, finish_time |-> None]

\* A list of up to MaxTasks unit-duration tasks with any names (duplicates
\* included) and any dependency name (unresolved and cyclic included).
ArbitraryTasks ==
    {Task(nm, 1, dl, de) : nm \in Names, dl \in {1, 2},
                           de \in {<< >>} \cup {<<d>> : d \in Names}}

\* A list of n tasks with distinct names, each depending on at most one task
\* earlier in the list (dep[i] = 0: on none), with durations of either sign.
OrderedDeps(n) == {dep \in [1..n -> 0..(n - 1)] : \A i \in 1..n : dep[i] < i}

OrderedList(n, attr, dep) ==
    [i \in 1..n |->
        Task(NameSeq[i], attr[i][1], attr[i][2],
             IF dep[i] = 0 THEN << >> ELSE <<NameSeq[dep[i]]>>)]

\* A longer list of unit-duration tasks with one common deadline.
WideTaskSet ==
    {Task(nm, 1, 1, de) : nm \in Names, de \in {<< >>, <<"A">>, <<"B">>}}

\* The example of the __main__ block.
\* Lists whose tasks may name one predecessor twice.
RepeatedTaskSet ==
    {Task(nm, 1, 1, dep) : nm \in Names, dep \in {<< >>, <<"A">>, <<"C", "C">>}}

ReferenceTasks ==
    << Task("A", 3, 10, << >>),
       Task("B", 2, 8, <<"A">>),
       Task("C", 4, 12, <<"A">>),
       Task("D", 1, 11, <<"B", "C">>),
       Task("E", 5, 7, << >>) >>

\* Every name a task or a dependency entry of the inputs can carry.
NameUniverse == {NameSeq[k] : k \in DOMAIN NameSeq}

(***************************************************************************)
(* list.sort(key=lambda t: t.deadline) and sorted(..., key=...): a stable  *)
(* sort of task objects (positions in T) by ascending deadline.            *)
(***************************************************************************)
\* An insertion that puts a task before the queued tasks of equal deadline.
RECURSIVE InsertBeforeEqual(_, _, _)
InsertBeforeEqual(q, i, T) ==
    IF q = << >> THEN <<i>>
    ELSE IF T[Head(q)].deadline < T[i].deadline
         THEN <<Head(q)>> \o InsertBeforeEqual(Tail(q), i, T)
         ELSE <<i>> \o q

RECURSIVE InsertByDeadline(_, _, _)
InsertByDeadline(q, i, T) ==
    IF q = << >> THEN <<i>>
    ELSE IF T[Head(q)].deadline <= T[i].deadline
         THEN <<Head(q)>> \o InsertByDeadline(Tail(q), i, T)
         ELSE <<i>> \o q

RECURSIVE SortFrom(_, _, _)
SortFrom(done, rest, T) ==
    IF rest = << >> THEN done
    ELSE SortFrom(InsertByDeadline(done, Head(rest), T), Tail(rest), T)

\* A sort that is left out: the list stays in arrival order.
ArrivalOrder(q, T) == q

SortByDeadline(q, T) == SortFrom(<< >>, q, T)

(***************************************************************************)
(* Lines 29-49: task_map, in_degree, the initial ready_queue, successors.  *)
(***************************************************************************)
TaskNames(T) == {T[i].name : i \in DOMAIN T}

\* {t.name: t for t in tasks}: a later task of the same name replaces an
\* earlier one.
TaskMapOf(T) ==
    [nm \in TaskNames(T) |->
        CHOOSE i \in DOMAIN T :
            /\ T[i].name = nm
            /\ \A j \in DOMAIN T : T[j].name = nm => j <= i]

\* {t.name: len(t.dependencies) for t in tasks}
InDegreeOf(T) ==
    [nm \in TaskNames(T) |-> Len(T[TaskMapOf(T)[nm]].dependencies)]

\* A filter that also takes the tasks with a single unmet dependency.
RECURSIVE FilterAtMostOne(_, _, _)
FilterAtMostOne(T, i, deg) ==
    IF i > Len(T) THEN << >>
    ELSE (IF deg[T[i].name] <= 1 THEN <<i>> ELSE << >>) \o FilterAtMostOne(T, i + 1, deg)

\* A filter that passes over the tasks whose start_time is already set.
RECURSIVE FilterUnstarted(_, _, _)
FilterUnstarted(T, i, deg) ==
    IF i > Len(T) THEN << >>
    ELSE (IF deg[T[i].name] = 0 /\ T[i].start_time = None THEN <<i>> ELSE << >>)
         \o FilterUnstarted(T, i + 1, deg)

RECURSIVE Filter(_, _, _)
Filter(T, i, deg) ==
    IF i > Len(T) THEN << >>
    ELSE (IF deg[T[i].name] = 0 THEN <<i>> ELSE << >>) \o Filter(T, i + 1, deg)

InitialReady(T) == SortByDeadline(Filter(T, 1, InDegreeOf(T)), T)

\* The entries one task appends to successors[d]: its name, once per
\* occurrence of d in its dependencies.
RECURSIVE Occurrences(_, _, _)
Occurrences(deps, d, nm) ==
    IF deps = << >> THEN << >>
    ELSE (IF Head(deps) = d THEN <<nm>> ELSE << >>) \o Occurrences(Tail(deps), d, nm)

RECURSIVE SuccessorsFrom(_, _, _)
SuccessorsFrom(T, i, d) ==
    IF i > Len(T) THEN << >>
    ELSE Occurrences(T[i].dependencies, d, T[i].name) \o SuccessorsFrom(T, i + 1, d)

\* The defaultdict(list): a key never appended to reads as the empty list.
SuccessorsOf(T) == [d \in NameUniverse |-> SuccessorsFrom(T, 1, d)]

(***************************************************************************)
(* Lines 66-73: the walk over successors[current_task.name].               *)
(***************************************************************************)
\* A walk that tests the decremented count but never stores it.
RECURSIVE ReleaseUnsaved(_, _, _, _)
ReleaseUnsaved(succs, deg, rq, tm) ==
    IF succs = << >> THEN [deg |-> deg, rq |-> rq]
    ELSE ReleaseUnsaved(Tail(succs), deg,
                        IF deg[Head(succs)] - 1 = 0 THEN Append(rq, tm[Head(succs)]) ELSE rq,
                        tm)

RECURSIVE Release(_, _, _, _)
Release(succs, deg, rq, tm) ==
    IF succs = << >> THEN [deg |-> deg, rq |-> rq]
    ELSE LET s == Head(succs)
             d == deg[s] - 1
         IN  Release(Tail(succs),
                     [deg EXCEPT ![s] = d],
                     IF d = 0 THEN Append(rq, tm[s]) ELSE rq,
                     tm)

(***************************************************************************)
(* Lines 84-87: total tardiness of the scheduled tasks.                    *)
(***************************************************************************)
\* Lateness summed without the test of line 86: early tasks count negatively.
RECURSIVE SignedLateness(_, _)
SignedLateness(sched, T) ==
    IF sched = << >> THEN 0
    ELSE (T[Head(sched)].finish_time[1] - T[Head(sched)].deadline)
         + SignedLateness(Tail(sched), T)

RECURSIVE Tardiness(_, _)
Tardiness(sched, T) ==
    IF sched = << >> THEN 0
    ELSE LET t == T[Head(sched)]
         IN  (IF t.finish_time # None /\ t.finish_time[1] > t.deadline
              THEN t.finish_time[1] - t.deadline ELSE 0)
             + Tardiness(Tail(sched), T)

\* Lines 57, 58 and 61: the start and finish of the task being scheduled
\* and the project time after it.
StartOf(now) == now

\* A finish time that forgets the time already elapsed.
DurationAlone(now, duration) == duration

FinishOf(now, duration) == now + duration

\* A project time that leaves one idle unit after every task.
IdleAfter(finish) == finish + 1

NextTime(finish) == finish

\* A write that reaches every task object carrying the current task's name.
ScheduleByName(T, cur, start, finish) ==
    [i \in DOMAIN T |->
        IF T[i].name = T[cur].name
        THEN [T[i] EXCEPT !.start_time = Some(start), !.finish_time = Some(finish)]
        ELSE T[i]]

\* Lines 57-58: the two scheduling fields of the current task are assigned.
Schedule(T, cur, start, finish) ==
    [T EXCEPT ![cur].start_time = Some(start),
              ![cur].finish_time = Some(finish)]

NoResult == [kind |-> "none", scheduled |-> << >>, makespan |-> 0, total_tardiness |-> 0]

\* The only way out of schedule_tasks is the return of line 89: no line of
\* the function raises.
Returned(sched, makespan, total_tardiness) ==
    [kind |-> "return", scheduled |-> sched, makespan |-> makespan,
     total_tardiness |-> total_tardiness]

(***************************************************************************)
(* The state machine.                                                      *)
(***************************************************************************)
Init ==
    /\ \/ \E n \in 0..MaxTasks : tasks \in [1..n -> ArbitraryTasks]
       \/ \E n \in 0..MaxTasks :
              \E attr \in [1..n -> Durations \X Deadlines], dep \in OrderedDeps(n) :
                  tasks = OrderedList(n, attr, dep)
       \/ tasks \in [1..WideTasks -> WideTaskSet]
       \/ \E n \in 1..WideTasks : tasks \in [1..n -> RepeatedTaskSet]
       \/ tasks = ReferenceTasks
    /\ pc = "call"
    /\ task_map = << >>
    /\ in_degree = << >>
    /\ ready_queue = << >>
    /\ current_time = 0
    /\ scheduled_tasks = << >>
    /\ successors = [d \in NameUniverse |-> << >>]
    /\ result = NoResult
    /\ ready_since = [i \in DOMAIN tasks |-> -1]
    /\ previous = << >>

\* schedule_tasks, lines 29-49.
Setup ==
    /\ pc = "call"
    /\ task_map' = TaskMapOf(tasks)
    /\ in_degree' = InDegreeOf(tasks)
    /\ ready_queue' = InitialReady(tasks)
    /\ current_time' = 0
    /\ scheduled_tasks' = << >>
    /\ successors' = SuccessorsOf(tasks)
    /\ ready_since' = [i \in DOMAIN tasks |->
                         IF InDegreeOf(tasks)[tasks[i].name] = 0 THEN 0 ELSE -1]
    /\ pc' = "loop"
    /\ UNCHANGED <<tasks, result, previous>>

\* One iteration of the while loop, lines 52-76.
Iterate ==
    /\ pc = "loop"
    /\ ready_queue # << >>
    /\ LET cur == Head(ready_queue)
           start == StartOf(current_time)
           finish == FinishOf(current_time, tasks[cur].duration)
           newTasks == Schedule(tasks, cur, start, finish)
           rel == Release(successors[tasks[cur].name], in_degree,
                          Tail(ready_queue), task_map)
           released == {rel.rq[k] : k \in Len(ready_queue)..Len(rel.rq)}
       IN  /\ tasks' = newTasks
           /\ current_time' = NextTime(finish)
           /\ scheduled_tasks' = Append(scheduled_tasks, cur)
           /\ in_degree' = rel.deg
           /\ ready_queue' = SortByDeadline(rel.rq, newTasks)
           /\ ready_since' = [i \in DOMAIN tasks |->
                                IF i \in released THEN Len(scheduled_tasks) + 1
                                ELSE ready_since[i]]
    /\ UNCHANGED <<pc, task_map, successors, result, previous>>

\* The loop's exit and lines 78-89: the metrics and the return.
Finish ==
    /\ pc = "loop"
    /\ ready_queue = << >>
    /\ result' = Returned(scheduled_tasks, current_time,
                          Tardiness(scheduled_tasks, tasks))
    /\ pc' = "done"
    /\ UNCHANGED <<tasks, task_map, in_degree, ready_queue, current_time,
                   scheduled_tasks, successors, ready_since, previous>>

Next == Setup \/ Iterate \/ Finish

Spec == Init /\ [][Next]_vars

\* The state in which schedule_tasks is entered: no local is bound yet, no
\* call has returned.
Entry ==
    /\ pc = "call"
    /\ task_map = << >>
    /\ in_degree = << >>
    /\ ready_queue = << >>
    /\ current_time = 0
    /\ scheduled_tasks = << >>
    /\ successors = [d \in NameUniverse |-> << >>]
    /\ result = NoResult
    /\ ready_since = [i \in DOMAIN tasks |-> -1]
    /\ previous = << >>

\* The caller calls schedule_tasks again on the list the first call returned
\* from; the Task objects keep the start_time and finish_time they were given
\* (lines 57-58 are the only writes), the function's locals are rebuilt by
\* lines 29-49.
Recall ==
    /\ pc = "done"
    /\ previous = << >>
    /\ previous' = <<[result |-> result, tasks |-> tasks]>>
    /\ pc' = "call"
    /\ UNCHANGED <<tasks, task_map, in_degree, ready_queue, current_time,
                   scheduled_tasks, successors, result, ready_since>>

NextRerun == Next \/ Recall

\* The second call is explored from the lists of any names of fewer than
\* MaxTasks tasks and from the other lists of Init.
RerunInit ==
    /\ \/ \E n \in 0..(MaxTasks - 1) : tasks \in [1..n -> ArbitraryTasks]
       \/ \E n \in 0..MaxTasks :
              \E attr \in [1..n -> Durations \X Deadlines], dep \in OrderedDeps(n) :
                  tasks = OrderedList(n, attr, dep)
       \/ tasks \in [1..WideTasks -> WideTaskSet]
       \/ tasks = ReferenceTasks
    /\ Entry

\* The entries of a dependencies list, each name kept at its first occurrence.
RECURSIVE RemoveDuplicates(_)
RemoveDuplicates(deps) ==
    IF deps = << >> THEN << >>
    ELSE LET front == RemoveDuplicates(SubSeq(deps, 1, Len(deps) - 1))
             last == deps[Len(deps)]
         IN  IF \E k \in DOMAIN front : front[k] = last THEN front ELSE Append(front, last)

RepeatedEntries(T, i) ==
    {d \in TaskNames(T) :
        Cardinality({k \in DOMAIN T[i].dependencies : T[i].dependencies[k] = d}) > 1}

\* The caller builds the same list again, every repeated dependency entry
\* removed, and calls schedule_tasks on the new Task objects (lines 7-13:
\* start_time and finish_time are None).
Deduplicate ==
    /\ pc = "done"
    /\ previous = << >>
    /\ \E i \in DOMAIN tasks : RepeatedEntries(tasks, i) # {}
    /\ previous' = <<[result |-> result, tasks |-> tasks]>>
    /\ tasks' = [i \in DOMAIN tasks |->
                   Task(tasks[i].name, tasks[i].duration, tasks[i].deadline,
                        RemoveDuplicates(tasks[i].dependencies))]
    /\ pc' = "call"
    /\ UNCHANGED <<task_map, in_degree, ready_queue, current_time,
                   scheduled_tasks, successors, result, ready_since>>

NextDedup == Next \/ Deduplicate

SpecDedup == Init /\ [][NextDedup]_vars

SpecRerun == RerunInit /\ [][NextRerun]_vars

\* schedule_tasks is sequential code with no blocking call: a step that can
\* be taken is taken.
\* The fair behaviours are explored from the lists of any names of fewer than
\* MaxTasks tasks, the lists of MaxTasks tasks of WideTaskSet and the __main__
\* example.
FairInit ==
    /\ \/ \E n \in 0..(MaxTasks - 1) : tasks \in [1..n -> ArbitraryTasks]
       \/ tasks \in [1..MaxTasks -> WideTaskSet]
       \/ tasks = ReferenceTasks
    /\ Entry

FairSpec == FairInit /\ [][Next]_vars /\ WF_vars(Next)

(***************************************************************************)
(* Vocabulary of the properties.                                           *)
(***************************************************************************)
DepNames(T, i) == {T[i].dependencies[k] : k \in DOMAIN T[i].dependencies}

UniqueNames(T) == \A i, j \in DOMAIN T : T[i].name = T[j].name => i = j

DepsPresent(T) == \A i \in DOMAIN T : DepNames(T, i) \subseteq TaskNames(T)

\* No non-empty set of names in which every name depends on a name of the set.
Acyclic(T) ==
    \A S \in SUBSET TaskNames(T) :
        S # {} => \E nm \in S : \A i \in DOMAIN T :
                      T[i].name = nm => DepNames(T, i) \cap S = {}

ValidInput(T) == UniqueNames(T) /\ DepsPresent(T) /\ Acyclic(T)

\* The list as the caller built it: the scheduling fields aside.
InputOf(T) ==
    [i \in DOMAIN T |-> Task(T[i].name, T[i].duration, T[i].deadline, T[i].dependencies)]

Count(seq, i) == Cardinality({k \in DOMAIN seq : seq[k] = i})

Pos(seq, i) == CHOOSE k \in DOMAIN seq : seq[k] = i

Members(seq) == {seq[k] : k \in DOMAIN seq}

Max0(x) == IF x > 0 THEN x ELSE 0

RECURSIVE SumDurations(_, _)
SumDurations(T, S) ==
    IF S = {} THEN 0
    ELSE LET i == CHOOSE x \in S : TRUE
         IN  T[i].duration + SumDurations(T, S \ {i})

RECURSIVE SumTardiness(_, _)
SumTardiness(T, S) ==
    IF S = {} THEN 0
    ELSE LET i == CHOOSE x \in S : TRUE
         IN  Max0(T[i].finish_time[1] - T[i].deadline) + SumTardiness(T, S \ {i})

Done == pc = "done"

(***************************************************************************)
(* C1.  For every input with unique names, all dependency names present    *)
(* and no dependency cycle, the returned sequence holds every input task   *)
(* exactly once, and for every dependency edge d -> t the finish_time of d *)
(* is at most the start_time of t.                                         *)
(***************************************************************************)
C1_TotalOrder ==
    (Done /\ ValidInput(tasks)) =>
        /\ result.kind = "return"
        /\ \A i \in DOMAIN tasks : Count(result.scheduled, i) = 1
        /\ \A t, d \in DOMAIN tasks :
              tasks[d].name \in DepNames(tasks, t) =>
                  tasks[d].finish_time[1] <= tasks[t].start_time[1]

\* What does hold of the same inputs: every task once, every dependency
\* earlier in the returned order.
C1_OrderOnly ==
    (Done /\ ValidInput(tasks)) =>
        /\ \A i \in DOMAIN tasks : Count(result.scheduled, i) = 1
        /\ \A t, d \in DOMAIN tasks :
              tasks[d].name \in DepNames(tasks, t) =>
                  Pos(result.scheduled, d) < Pos(result.scheduled, t)

\* And the bound on the times once no duration is negative.
C1_TimesIfNoNegativeDuration ==
    (Done /\ ValidInput(tasks) /\ \A i \in DOMAIN tasks : tasks[i].duration >= 0) =>
        \A t, d \in DOMAIN tasks :
            tasks[d].name \in DepNames(tasks, t) =>
                tasks[d].finish_time[1] <= tasks[t].start_time[1]

(***************************************************************************)
(* C2.  Non-idling: the first scheduled task starts at 0, each later one   *)
(* starts at the finish_time of the one before it, and the project time is *)
(* the finish_time of the last task scheduled, so the next task of the     *)
(* ready queue starts with no gap.                                         *)
(***************************************************************************)
C2_NonIdling ==
    LET s == scheduled_tasks
    IN  /\ s # << >> => tasks[s[1]].start_time = Some(0)
        /\ \A k \in 1..(Len(s) - 1) :
              /\ tasks[s[k + 1]].start_time # None
              /\ tasks[s[k + 1]].start_time = tasks[s[k]].finish_time
        /\ current_time = IF s = << >> THEN 0 ELSE tasks[s[Len(s)]].finish_time[1]
        /\ Done => result.scheduled = s

C2_Witness ==
    /\ Done
    /\ Len(result.scheduled) >= 3
    /\ tasks[result.scheduled[3]].start_time[1] > tasks[result.scheduled[2]].start_time[1]
    /\ tasks[result.scheduled[2]].start_time[1] > 0

(***************************************************************************)
(* C3.  Makespan identity: for a valid acyclic input the returned makespan *)
(* is the sum of the durations of all input tasks and the finish_time of   *)
(* the last scheduled task.                                                *)
(***************************************************************************)
C3_MakespanIdentity ==
    (Done /\ ValidInput(tasks)) =>
        /\ result.makespan = SumDurations(tasks, DOMAIN tasks)
        /\ result.scheduled # << >> =>
              result.makespan =
                  tasks[result.scheduled[Len(result.scheduled)]].finish_time[1]

C3_Witness ==
    /\ Done
    /\ ValidInput(tasks)
    /\ Len(tasks) >= 3
    /\ \E i \in DOMAIN tasks : tasks[i].dependencies # << >>
    /\ result.makespan >= 4

(***************************************************************************)
(* C4.  The returned total_tardiness is the sum over the scheduled tasks   *)
(* of max(0, finish_time - deadline); it is never negative, and it is 0    *)
(* exactly when every scheduled task finishes at or before its deadline.   *)
(***************************************************************************)
C4_TotalTardiness ==
    Done =>
        LET S == Members(result.scheduled)
        IN  /\ Cardinality(S) = Len(result.scheduled)
            /\ result.total_tardiness = SumTardiness(tasks, S)
            /\ result.total_tardiness >= 0
            /\ result.total_tardiness = 0 <=>
                  \A i \in S : tasks[i].finish_time[1] <= tasks[i].deadline

C4_Witness ==
    /\ Done
    /\ result.total_tardiness > 0
    /\ \E i \in Members(result.scheduled) :
          tasks[i].finish_time[1] < tasks[i].deadline

(***************************************************************************)
(* C5.  Tie-break stability: two tasks of equal deadline that became ready *)
(* at the same point (both initially, or both released by the completion   *)
(* of the same task) are scheduled in their order in the input list.       *)
(***************************************************************************)
SameReadyPoint(i, j) == ready_since[i] >= 0 /\ ready_since[i] = ready_since[j]

C5_TieBreakStability ==
    Done =>
        \A i, j \in DOMAIN tasks :
            (i < j /\ tasks[i].deadline = tasks[j].deadline /\ SameReadyPoint(i, j)) =>
                Pos(result.scheduled, i) < Pos(result.scheduled, j)

\* What does hold: the same, of inputs whose names are unique.
C5_StableIfUniqueNames == UniqueNames(tasks) => C5_TieBreakStability

(***************************************************************************)
(* C6.  Cycle detection: a run that ends with fewer tasks scheduled than   *)
(* the input holds, because of a dependency cycle, ends in the error       *)
(* UnschedulableResidueError naming the unscheduled tasks, never in a      *)
(* normal return of the shorter schedule.                                  *)
(***************************************************************************)
C6_CycleReported ==
    (Done /\ ~Acyclic(tasks) /\ Len(scheduled_tasks) < Len(tasks)) =>
        /\ result.kind = "UnschedulableResidueError"
        /\ result.kind # "return"

(***************************************************************************)
(* C7.  Input validation: an input with a repeated task name or with a     *)
(* dependency name no task carries is rejected with InvalidGraphError      *)
(* before any start_time or finish_time is set.                            *)
(***************************************************************************)
C7_InvalidGraphRejected ==
    (~UniqueNames(tasks) \/ ~DepsPresent(tasks)) =>
        /\ \A i \in DOMAIN tasks :
              tasks[i].start_time = None /\ tasks[i].finish_time = None
        /\ Done => result.kind = "InvalidGraphError"

(***************************************************************************)
(* C8.  Domain validation: a task with duration <= 0 is reported as an     *)
(* error at construction, so no schedule is produced that contains a task  *)
(* with duration <= 0.                                                     *)
(***************************************************************************)
C8_NoNonPositiveDuration ==
    (Done /\ result.kind = "return") =>
        /\ \A i \in DOMAIN tasks : tasks[i].duration > 0
        /\ \A k \in DOMAIN result.scheduled : tasks[result.scheduled[k]].duration > 0

(***************************************************************************)
(* C9.  Reference scenario: for the five tasks A, B, C, D, E of the        *)
(* example, in that order, the result is E(0->5), A(5->8), B(8->10),       *)
(* C(10->14), D(14->15), makespan 15, total_tardiness 8.                   *)
(***************************************************************************)
Times(T, i) == <<T[i].start_time, T[i].finish_time>>

C9_ReferenceScenario ==
    (Done /\ InputOf(tasks) = ReferenceTasks) =>
        /\ result.kind = "return"
        /\ result.scheduled = <<5, 1, 2, 3, 4>>
        /\ Times(tasks, 5) = <<Some(0), Some(5)>>
        /\ Times(tasks, 1) = <<Some(5), Some(8)>>
        /\ Times(tasks, 2) = <<Some(8), Some(10)>>
        /\ Times(tasks, 3) = <<Some(10), Some(14)>>
        /\ Times(tasks, 4) = <<Some(14), Some(15)>>
        /\ result.makespan = 15
        /\ result.total_tardiness = 8

C9_Witness == Done /\ InputOf(tasks) = ReferenceTasks /\ Len(result.scheduled) = 5

(***************************************************************************)
(* C10.  EDF selection: at every loop head the ready queue is sorted       *)
(* ascending by deadline and its head has a deadline no later than that of *)
(* any task that is ready (not yet scheduled, all dependencies finished).  *)
(***************************************************************************)
IsScheduled(i) == \E k \in DOMAIN scheduled_tasks : scheduled_tasks[k] = i

DepsFinished(i) ==
    \A d \in DepNames(tasks, i) :
        \E j \in DOMAIN tasks : tasks[j].name = d /\ IsScheduled(j)

ReadyNow(i) == ~IsScheduled(i) /\ DepsFinished(i)

QueueSorted ==
    \A k \in 1..(Len(ready_queue) - 1) :
        tasks[ready_queue[k]].deadline <= tasks[ready_queue[k + 1]].deadline

C10_EarliestDeadlineFirst ==
    pc = "loop" =>
        /\ QueueSorted
        /\ ready_queue # << >> =>
              \A i \in DOMAIN tasks :
                  ReadyNow(i) => tasks[Head(ready_queue)].deadline <= tasks[i].deadline

\* What does hold: the queue is sorted at every loop head, and its head is
\* the earliest ready task when the names are unique.
C10_SortedAtLoopHead == pc = "loop" => QueueSorted

C10_EarliestIfUniqueNames == UniqueNames(tasks) => C10_EarliestDeadlineFirst

(***************************************************************************)
(* C11.  For every input with unique names (cycles and unresolved          *)
(* dependency names included), in every reachable state a task whose       *)
(* start_time is set has each of its dependencies finished at or before    *)
(* that start_time, and a task with an unmet dependency has start_time and *)
(* finish_time unset.                                                      *)
(***************************************************************************)
FinishedBy(d, time) ==
    \E j \in DOMAIN tasks :
        /\ tasks[j].name = d
        /\ tasks[j].finish_time # None
        /\ tasks[j].finish_time[1] <= time

HasFinished(d) ==
    \E j \in DOMAIN tasks : tasks[j].name = d /\ tasks[j].finish_time # None

C11_NoStartBeforeDependencies ==
    UniqueNames(tasks) =>
        \A t \in DOMAIN tasks :
            /\ tasks[t].start_time # None =>
                  \A d \in DepNames(tasks, t) : FinishedBy(d, tasks[t].start_time[1])
            /\ (\E d \in DepNames(tasks, t) : ~HasFinished(d)) =>
                  tasks[t].start_time = None /\ tasks[t].finish_time = None

\* What does hold of the same inputs: a task is started only once every one
\* of its dependencies has been scheduled.
C11_StartedOnlyAfterDependencies ==
    UniqueNames(tasks) =>
        \A t \in DOMAIN tasks :
            (\E d \in DepNames(tasks, t) : ~HasFinished(d)) =>
                tasks[t].start_time = None /\ tasks[t].finish_time = None

\* And the bound on the times once no duration is negative.
C11_TimesIfNoNegativeDuration ==
    (\A i \in DOMAIN tasks : tasks[i].duration >= 0) => C11_NoStartBeforeDependencies

(***************************************************************************)
(* C12.  Readiness bookkeeping: for an input with unique names and every   *)
(* dependency name present, at every loop head in_degree[name] is the      *)
(* number of entries of that task's dependencies not yet scheduled (so it  *)
(* is never negative), and the ready queue holds exactly the not yet       *)
(* scheduled tasks whose in_degree is 0, each at most once.                *)
(***************************************************************************)
NameScheduled(d) == \E j \in DOMAIN tasks : tasks[j].name = d /\ IsScheduled(j)

UnscheduledDeps(i) ==
    Cardinality({k \in DOMAIN tasks[i].dependencies :
                    ~NameScheduled(tasks[i].dependencies[k])})

C12_ReadinessBookkeeping ==
    (pc = "loop" /\ UniqueNames(tasks) /\ DepsPresent(tasks)) =>
        /\ \A i \in DOMAIN tasks :
              /\ in_degree[tasks[i].name] = UnscheduledDeps(i)
              /\ in_degree[tasks[i].name] >= 0
        /\ Members(ready_queue) =
              {i \in DOMAIN tasks : ~IsScheduled(i) /\ in_degree[tasks[i].name] = 0}
        /\ Cardinality(Members(ready_queue)) = Len(ready_queue)

C12_Witness ==
    /\ pc = "loop"
    /\ ValidInput(tasks)
    /\ Len(scheduled_tasks) >= 1
    /\ \E i \in DOMAIN tasks : Len(tasks[i].dependencies) = 2 /\ in_degree[tasks[i].name] = 1
    /\ ready_queue # << >>

(***************************************************************************)
(* C13.  In every reachable state each task has start_time and finish_time *)
(* both unset, or both set with finish_time = start_time + duration; and   *)
(* within a run the scheduler assigns them at most once per task: a task   *)
(* already scheduled is never scheduled again.                             *)
(***************************************************************************)
FieldsConsistent(T) ==
    \A i \in DOMAIN T :
        \/ T[i].start_time = None /\ T[i].finish_time = None
        \/ /\ T[i].start_time # None
           /\ T[i].finish_time # None
           /\ T[i].finish_time[1] = T[i].start_time[1] + T[i].duration

ScheduledOnce ==
    /\ \A i \in DOMAIN tasks : Count(scheduled_tasks, i) <= 1
    /\ pc # "call" =>
          \A i \in DOMAIN tasks : IsScheduled(i) <=> tasks[i].start_time # None
    /\ pc = "loop" =>
          \A k \in DOMAIN ready_queue : ~IsScheduled(ready_queue[k])

C13_SetOnceAndConsistent == FieldsConsistent(tasks) /\ ScheduledOnce

C13_Witness ==
    /\ Done
    /\ \E i, j \in DOMAIN tasks :
          /\ tasks[i].start_time # None
          /\ tasks[i].duration # 0
          /\ tasks[i].start_time[1] # 0
          /\ tasks[j].start_time = None

(***************************************************************************)
(* C14.  Termination: on every input (cycles, unresolved dependency names  *)
(* and duplicate names included) the loop reaches an empty ready queue and *)
(* schedule_tasks returns, after at most as many iterations as there are   *)
(* input tasks.                                                            *)
(***************************************************************************)
C14_Termination ==
    /\ <>Done
    /\ [](Len(scheduled_tasks) <= Len(tasks))
    /\ [](Done => result.kind = "return" /\ ready_queue = << >>)

\* The bound on the iterations and the return, on every list of Init.
C14_BoundedIterations ==
    /\ Len(scheduled_tasks) <= Len(tasks)
    /\ pc = "loop" => Len(scheduled_tasks) + Len(ready_queue) <= Len(tasks)
    /\ Done => result.kind = "return" /\ ready_queue = << >>

C14_Witness ==
    /\ Done
    /\ ~UniqueNames(tasks)
    /\ ~DepsPresent(tasks)
    /\ Len(result.scheduled) >= 2
    /\ Len(result.scheduled) < Len(tasks)

(***************************************************************************)
(* C15.  Priority-queue equivalence: for an input with unique names and    *)
(* every dependency name present, the returned schedule (order, start and  *)
(* finish times) is the one a priority queue keyed by (deadline, insertion *)
(* number) produces, the insertion numbers following the input order for   *)
(* the initially ready tasks and the arrival order afterwards; and of two  *)
(* tasks of equal deadline the one that became ready earlier starts first. *)
(***************************************************************************)
KeyBefore(e, f) ==
    \/ e.deadline < f.deadline
    \/ e.deadline = f.deadline /\ e.number <= f.number

PQMin(pq) == CHOOSE e \in pq : \A f \in pq : KeyBefore(e, f)

RECURSIVE PQInsertAll(_, _, _, _)
PQInsertAll(pq, arrivals, number, T) ==
    IF arrivals = << >> THEN [pq |-> pq, number |-> number]
    ELSE PQInsertAll(pq \cup {[task |-> Head(arrivals),
                               deadline |-> T[Head(arrivals)].deadline,
                               number |-> number]},
                     Tail(arrivals), number + 1, T)

RECURSIVE PQRun(_, _, _, _, _, _)
PQRun(pq, number, deg, now, out, T) ==
    IF pq = {} THEN out
    ELSE LET e == PQMin(pq)
             finish == now + T[e.task].duration
             rel == Release(SuccessorsOf(T)[T[e.task].name], deg, << >>, TaskMapOf(T))
             ins == PQInsertAll(pq \ {e}, rel.rq, number, T)
         IN  PQRun(ins.pq, ins.number, rel.deg, finish,
                   Append(out, [task |-> e.task, start |-> now, finish |-> finish]), T)

PQSchedule(T) ==
    LET first == PQInsertAll({}, Filter(T, 1, InDegreeOf(T)), 1, T)
    IN  PQRun(first.pq, first.number, InDegreeOf(T), 0, << >>, T)

ReturnedSchedule ==
    [k \in DOMAIN result.scheduled |->
        [task |-> result.scheduled[k],
         start |-> tasks[result.scheduled[k]].start_time[1],
         finish |-> tasks[result.scheduled[k]].finish_time[1]]]

C15_PriorityQueueEquivalence ==
    (Done /\ UniqueNames(tasks) /\ DepsPresent(tasks)) =>
        /\ ReturnedSchedule = PQSchedule(InputOf(tasks))
        /\ \A i, j \in Members(result.scheduled) :
              (tasks[i].deadline = tasks[j].deadline /\ ready_since[i] < ready_since[j]) =>
                  Pos(result.scheduled, i) < Pos(result.scheduled, j)

\* The equivalence does not need the names to be unique.
C15_EquivalenceOnEveryInput == Done => ReturnedSchedule = PQSchedule(InputOf(tasks))

C15_Witness ==
    /\ Done
    /\ ValidInput(tasks)
    /\ \E i, j \in Members(result.scheduled) :
          /\ tasks[i].deadline = tasks[j].deadline
          /\ 0 < ready_since[i]
          /\ ready_since[i] < ready_since[j]
          /\ j < i

(***************************************************************************)
(* C16.  Frame: no step changes the length of the input list or the name,  *)
(* duration, deadline or dependencies of a task; a step that changes a     *)
(* task changes only the task at the head of the ready list, in an         *)
(* iteration of the loop; a task that is never scheduled leaves the run    *)
(* with the start_time and finish_time it entered it with.                 *)
(***************************************************************************)
C16_Frame ==
    /\ [][/\ InputOf(tasks') = InputOf(tasks)
          /\ \A i \in DOMAIN tasks :
                tasks'[i] # tasks[i] =>
                    /\ pc = "loop"
                    /\ ready_queue # << >>
                    /\ i = Head(ready_queue)
                    /\ scheduled_tasks' = Append(scheduled_tasks, i)]_vars
    /\ [](\A i \in DOMAIN tasks :
              ~IsScheduled(i) => tasks[i].start_time = None /\ tasks[i].finish_time = None)

C16_Witness ==
    /\ Done
    /\ \E i, j \in DOMAIN tasks :
          /\ i # j
          /\ tasks[i].name = tasks[j].name
          /\ tasks[i].start_time # None
          /\ tasks[j].start_time = None
          /\ tasks[j].finish_time = None

(***************************************************************************)
(* C17.  When the input is empty or every input task has at least one      *)
(* dependency entry, the call returns the empty sequence, makespan 0 and   *)
(* total_tardiness 0; whenever nothing was scheduled the two metrics are   *)
(* 0; and the returned makespan is the value of current_time at the end of *)
(* the loop.                                                               *)
(***************************************************************************)
NoRoot(T) == \A i \in DOMAIN T : T[i].dependencies # << >>

C17_NothingScheduled ==
    Done =>
        /\ NoRoot(tasks) => result = Returned(<< >>, 0, 0)
        /\ result.scheduled = << >> => result.makespan = 0 /\ result.total_tardiness = 0
        /\ result.makespan = current_time
        /\ result.scheduled = scheduled_tasks

C17_Witness ==
    /\ Done
    /\ Len(tasks) >= 2
    /\ NoRoot(tasks)
    /\ result = Returned(<< >>, 0, 0)

C17_EmptyInputWitness == Done /\ tasks = << >> /\ result = Returned(<< >>, 0, 0)

C17_MakespanWitness == Done /\ result.makespan > 0 /\ result.makespan = current_time

(***************************************************************************)
(* C18.  Re-run idempotence: a second call on the same list, the fields    *)
(* start_time and finish_time left as the first call set them, returns the *)
(* same order, makespan and total_tardiness as the first call and leaves   *)
(* every task with the same start_time and finish_time.                    *)
(***************************************************************************)
C18_RerunIdempotent ==
    (Done /\ previous # << >>) =>
        /\ result = previous[1].result
        /\ tasks = previous[1].tasks

C18_Witness ==
    /\ Done
    /\ previous # << >>
    /\ Len(result.scheduled) >= 2
    /\ Len(result.scheduled) < Len(tasks)
    /\ result.makespan > 0
    /\ result.total_tardiness > 0

(***************************************************************************)
(* C19.  A task whose dependencies name an existing task more than once    *)
(* enters the ready list at most once and is never scheduled twice, it is  *)
(* released only when a task of that name has finished, and the call       *)
(* returns the order, the times and the metrics it returns for the same    *)
(* list with the repeated entries removed.                                 *)
(***************************************************************************)
TimesOf(T) == [i \in DOMAIN T |-> <<T[i].start_time, T[i].finish_time>>]

ReleasedOnceAfter(i) ==
    \A d \in RepeatedEntries(tasks, i) :
        /\ Count(ready_queue, i) + Count(scheduled_tasks, i) <= 1
        /\ (Count(ready_queue, i) + Count(scheduled_tasks, i) = 1) => HasFinished(d)
        /\ tasks[i].start_time # None => FinishedBy(d, tasks[i].start_time[1])

SameAsDeduplicated ==
    (Done /\ previous # << >>) =>
        /\ result = previous[1].result
        /\ TimesOf(tasks) = TimesOf(previous[1].tasks)

C19_DuplicateEntries ==
    /\ pc \in {"loop", "done"} => \A i \in DOMAIN tasks : ReleasedOnceAfter(i)
    /\ SameAsDeduplicated

\* With unique names the statement holds.
C19_SameIfUniqueNames == UniqueNames(tasks) => C19_DuplicateEntries

C19_UniqueNamesWitness ==
    /\ Done
    /\ previous # << >>
    /\ UniqueNames(tasks)
    /\ Len(result.scheduled) = 3
    /\ \E i \in DOMAIN tasks : RepeatedEntries(previous[1].tasks, i) # {}

====
